---- MODULE Spec2Model ----
(***************************************************************************)
(* Model of the chat client: message rendering:                           *)
(*   - formatMessageContent (frontend/src/utils/helpers.jsx): the regex    *)
(*     based splitter of a message into markdown and code parts;           *)
(*   - ChatMessage (frontend/src/components/chat/ChatMessage.jsx): the     *)
(*     copy-to-clipboard handlers and their acknowledgment state.          *)
(* Strings are sequences of one-character strings.  JavaScript indices are *)
(* 0-based: a part's span [from, to) and the copySuccess keys are the      *)
(* JavaScript values.                                                      *)
(***************************************************************************)
EXTENDS Integers, Sequences, FiniteSets, TLC

VARIABLES
    content,        \* message.content, the text handed to formatMessageContent
    role,           \* message.role
    view,           \* "unrendered" | "null" | "parts": what formatMessageContent returned
    parts,          \* the parts array built by formatMessageContent
    mounted,        \* the ChatMessage component is mounted
    copySuccess,    \* useState({}) of ChatMessage: the set of keys whose value is true
    messageCopied,  \* useState(false) of ChatMessage
    writes,         \* navigator.clipboard.writeText promises still pending
    timers,         \* setTimeout callbacks still pending
    now,            \* wall-clock time in ms
    nextId,         \* number of copy clicks so far (ids of writes and timers)
    unhandled,      \* promise rejections that reached no rejection handler
    staleCalls,     \* state setter calls made after the component was unmounted
    codeCopiedAt,   \* time of the latest setCopySuccess({[index]: true}), -1 if none
    codeCopiedIndex,\* its index, -1 if none
    msgCopiedAt,    \* time of the latest setMessageCopied(true), -1 if none
    messages,       \* state.messages of chatReducer
    isLoading,      \* state.isLoading
    error,          \* state.error, Null or a message
    storedValue,    \* useLocalStorage("chat-history", []): the state of the hook (savedMessages)
    lsItem,         \* window.localStorage, the item under the key chat-history
    mountSaved,     \* savedMessages as the mount effect of ChatProvider closed over it
    pending,        \* backend requests in flight
    sends,          \* sendMessage calls that issued a request so far
    clears,         \* clearHistory calls so far
    inputText,      \* useState("") of ChatInput
    sent,           \* the arguments of the onSend calls of ChatInput, in order
    escaped         \* rejections that sendMessage or clearHistory let through to the caller

vars == <<content, role, view, parts, mounted, copySuccess, messageCopied, writes,
          timers, now, nextId, unhandled, staleCalls, codeCopiedAt, codeCopiedIndex,
          msgCopiedAt, messages, isLoading, error, storedValue, lsItem, mountSaved,
          pending, sends, clears, inputText, sent, escaped>>

chatVars == <<messages, isLoading, error, storedValue, lsItem, mountSaved, pending,
              sends, clears, inputText, sent, escaped>>

segVars == <<content, role, view, parts>>
copyVars == <<mounted, copySuccess, messageCopied, writes, timers, now, nextId,
              unhandled, staleCalls, codeCopiedAt, codeCopiedIndex, msgCopiedAt>>

(***************************************************************************)
(* Bounds of the model.                                                    *)
(***************************************************************************)
MaxTokens == 5      \* tokens in a free-form input
MaxBody == 2        \* characters in the body of a single-fence input
MaxCopies == 3      \* copy clicks in one behaviour
MaxSteps == 4       \* clock advances in one behaviour
MaxSends == 2       \* sendMessage requests in one behaviour
MaxClears == 1      \* clearHistory calls in one behaviour

(***************************************************************************)
(* Characters and strings.                                                 *)
(***************************************************************************)
\* The backtick character (written bt: the lexer takes no backtick inside a string).
BT == "bt"
NL == "\n"
SP == " "

Fence == <<BT, BT, BT>>

\* null and undefined: values no string equals (their one element is no character).
Null == <<"null">>
Undefined == <<"undefined">>

\* !value for a string, null or undefined.
Falsy(value) == value \in {<<>>, Null, Undefined}

\* The characters \s matches and String.prototype.trim strips (those the inputs use).
IsSpace(c) == c \in {SP, NL}

python == <<"p", "y", "t", "h", "o", "n">>
javascript == <<"j", "a", "v", "a", "s", "c", "r", "i", "p", "t">>
js == <<"j", "s">>
html == <<"h", "t", "m", "l">>
css == <<"c", "s", "s">>
bash == <<"b", "a", "s", "h">>
shell == <<"s", "h", "e", "l", "l">>
sql == <<"s", "q", "l">>
json == <<"j", "s", "o", "n">>
typescript == <<"t", "y", "p", "e", "s", "c", "r", "i", "p", "t">>
tsx == <<"t", "s", "x">>
jsx == <<"j", "s", "x">>
text == <<"t", "e", "x", "t">>
ruby == <<"r", "u", "b", "y">>
go == <<"g", "o">>

\* The alternation of the first group of the regex, in its order.
KnownTags ==
    <<python, javascript, js, html, css, bash, shell, sql, json, typescript, tsx, jsx>>

KnownTagSet == {KnownTags[k] : k \in 1..Len(KnownTags)}

\* Tags the alternation does not list.
UnknownTags == {ruby, go}

\* s.substring(from, to) with 0-based from (inclusive) and to (exclusive).
Substring(s, from, to) == SubSeq(s, from + 1, to)

\* s.startsWith(t, i), 0-based i.
StartsWithAt(s, t, i) ==
    /\ i + Len(t) <= Len(s)
    /\ \A k \in 1..Len(t) : s[i + k] = t[k]

\* Three backticks at 0-based index i.
TripleAt(s, i) == StartsWithAt(s, Fence, i)

RECURSIVE LeadingSpaces(_, _)
\* Number of whitespace characters of s from 0-based index i on.
LeadingSpaces(s, i) ==
    IF i < Len(s) /\ IsSpace(s[i + 1]) THEN 1 + LeadingSpaces(s, i + 1) ELSE 0

RECURSIVE TrailingSpaces(_, _)
\* Number of whitespace characters ending the first n characters of s.
TrailingSpaces(s, n) ==
    IF n > 0 /\ IsSpace(s[n]) THEN 1 + TrailingSpaces(s, n - 1) ELSE 0

\* String.prototype.trim.
Trim(s) ==
    LET a == LeadingSpaces(s, 0)
    IN  IF a = Len(s) THEN <<>>
        ELSE Substring(s, a, Len(s) - TrailingSpaces(s, Len(s)))

(***************************************************************************)
(* The regular expression of formatMessageContent,                         *)
(*     ```(python|javascript|js|...|jsx)?\s*([\s\S]*?)```   with flag g,   *)
(* matched the way a backtracking engine matches it.                       *)
(***************************************************************************)
NoMatch == [found |-> FALSE]

RECURSIVE LazyBodyGreedy(_, _)
\* A greedy body: the LAST closing fence at or after p.
LazyBodyGreedy(s, p) ==
    IF p > Len(s) THEN -1
    ELSE LET later == LazyBodyGreedy(s, p + 1)
         IN  IF later # -1 THEN later ELSE IF TripleAt(s, p) THEN p ELSE -1

RECURSIVE LazyBodyOrEnd(_, _)
\* A body that the end of input closes as well.
LazyBodyOrEnd(s, p) ==
    IF TripleAt(s, p) THEN p
    ELSE IF p < Len(s) THEN LazyBodyOrEnd(s, p + 1)
    ELSE Len(s)

RECURSIVE LazyBody(_, _)
\* ([\s\S]*?)``` from 0-based index p: the lazy star takes no character, then one
\* more each time the closing fence does not follow.  The index where the closing
\* fence starts, or -1 when the end of input is reached without one.
LazyBody(s, p) ==
    IF TripleAt(s, p) THEN p
    ELSE IF p < Len(s) THEN LazyBody(s, p + 1)
    ELSE -1

RECURSIVE SpacesThenBody(_, _, _)
\* \s*([\s\S]*?)``` from index p with the greedy \s* holding n characters; on
\* failure \s* gives one character back.  [from, to) of group 2, or <<>>.
SpacesThenBody(s, p, n) ==
    LET close == LazyBody(s, p + n)
    IN  IF close # -1 THEN <<p + n, close>>
        ELSE IF n > 0 THEN SpacesThenBody(s, p, n - 1)
        ELSE <<>>

RECURSIVE TryTags(_, _, _, _)
\* (python|...|jsx)? after the opening fence that starts at index: the alternatives
\* k, k+1, ... in their order, each kept only if the rest of the pattern then matches;
\* the group is skipped when none leads to a match.
TryTags(s, index, p, k) ==
    IF k > Len(KnownTags) THEN
        LET rest == SpacesThenBody(s, p, LeadingSpaces(s, p))
        IN  IF rest = <<>> THEN NoMatch
            ELSE [found |-> TRUE, index |-> index, length |-> rest[2] + 3 - index,
                  group1 |-> <<>>, group2 |-> Substring(s, rest[1], rest[2])]
    ELSE IF StartsWithAt(s, KnownTags[k], p) THEN
        LET q == p + Len(KnownTags[k])
            rest == SpacesThenBody(s, q, LeadingSpaces(s, q))
        IN  IF rest = <<>> THEN TryTags(s, index, p, k + 1)
            ELSE [found |-> TRUE, index |-> index, length |-> rest[2] + 3 - index,
                  group1 |-> KnownTags[k], group2 |-> Substring(s, rest[1], rest[2])]
    ELSE TryTags(s, index, p, k + 1)

\* The pattern anchored at index i.  group1 is <<>> when the group took no part
\* (undefined in JavaScript; both are falsy for the || of line 38).
MatchAt(s, i) ==
    IF TripleAt(s, i) THEN TryTags(s, i, i + 3, 1) ELSE NoMatch

RECURSIVE Exec(_, _)
\* regex.exec(content) with regex.lastIndex = i: the leftmost match starting at or
\* after i, or NoMatch (null).
Exec(s, i) ==
    IF i > Len(s) THEN NoMatch
    ELSE LET m == MatchAt(s, i)
         IN  IF m.found THEN m ELSE Exec(s, i + 1)

(***************************************************************************)
(* formatMessageContent: the parts array.  A part carries, beside the      *)
(* fields of the source, the span [from, to) of the input it was cut from. *)
(***************************************************************************)
TextBefore(s, lastIndex, m) ==
    IF m.index > lastIndex
    THEN <<[type |-> "markdown", content |-> Substring(s, lastIndex, m.index),
            from |-> lastIndex, to |-> m.index]>>
    ELSE <<>>

CodePartUntrimmed(m) ==
    [type |-> "code",
     language |-> IF m.group1 # <<>> THEN m.group1 ELSE text,
     content |-> m.group2,
     from |-> m.index, to |-> m.index + m.length]

CodePartNoDefault(m) ==
    [type |-> "code",
     language |-> m.group1,
     content |-> Trim(m.group2),
     from |-> m.index, to |-> m.index + m.length]

CodePart(m) ==
    [type |-> "code",
     language |-> IF m.group1 # <<>> THEN m.group1 ELSE text,
     content |-> Trim(m.group2),
     from |-> m.index, to |-> m.index + m.length]

NextLastIndexShort(m) == m.index + Len(m.group2) + 3

NextLastIndex(m) == m.index + m.length

TextAfter(s, lastIndex) ==
    IF lastIndex < Len(s)
    THEN <<[type |-> "markdown", content |-> Substring(s, lastIndex, Len(s)),
            from |-> lastIndex, to |-> Len(s)]>>
    ELSE <<>>

RECURSIVE FormatLoop(_, _, _, _)
\* The while loop over regex.exec and the push of the remaining text.  lastIndex
\* is the variable of line 22, regexLastIndex the lastIndex property of the regex,
\* which exec sets to the end of the match it returns.
FormatLoop(s, lastIndex, regexLastIndex, acc) ==
    LET m == Exec(s, regexLastIndex)
    IN  IF m.found
        THEN FormatLoop(s, NextLastIndex(m), m.index + m.length,
                        acc \o TextBefore(s, lastIndex, m) \o <<CodePart(m)>>)
        ELSE acc \o TextAfter(s, lastIndex)

\* The parts of a non-empty content; none when content is falsy (return null).
FormatParts(s) == IF Falsy(s) THEN <<>> ELSE FormatLoop(s, 0, 0, <<>>)

\* With no guard on content: "error" stands for the TypeError that content.length
\* raises on null and undefined.
FormatViewNoGuard(s) == IF s \in {Null, Undefined} THEN "error" ELSE "parts"

\* What formatMessageContent returns: null, or the rendering of the parts.
FormatView(s) == IF Falsy(s) THEN "null" ELSE "parts"

(***************************************************************************)
(* Inputs.                                                                 *)
(***************************************************************************)
Tokens == {Fence, <<BT>>, <<NL>>, <<SP>>, <<"x">>, js, json}

RECURSIVE TokenStrings(_)
\* The concatenations of at most n tokens.
TokenStrings(n) ==
    IF n = 0 THEN {<<>>}
    ELSE LET shorter == TokenStrings(n - 1)
         IN  shorter \cup {p \o t : p \in shorter, t \in Tokens}

BodyChars == {"x", SP, NL, BT}

RECURSIVE CharStrings(_)
CharStrings(n) ==
    IF n = 0 THEN {<<>>}
    ELSE LET shorter == CharStrings(n - 1)
         IN  shorter \cup {Append(p, c) : p \in shorter, c \in BodyChars}

HasTriple(s) == \E i \in 0..Len(s) : TripleAt(s, i)

\* Bodies with no triple backtick.
Bodies == {b \in CharStrings(MaxBody) : ~HasTriple(b)}

\* fence, tag, newline, body, newline, fence.
Fenced(tag, body) == Fence \o tag \o <<NL>> \o body \o <<NL>> \o Fence

FencedInputs ==
    {Fenced(t, b) : t \in KnownTagSet \cup UnknownTags \cup {<<>>}, b \in Bodies}

Inputs == TokenStrings(MaxTokens) \cup FencedInputs \cup {Null, Undefined}

(***************************************************************************)
(* The segmenter on its own: an input is chosen and rendered once.         *)
(***************************************************************************)
CopyIdle ==
    /\ mounted = TRUE
    /\ copySuccess = {}
    /\ messageCopied = FALSE
    /\ writes = {}
    /\ timers = {}
    /\ now = 0
    /\ nextId = 0
    /\ unhandled = 0
    /\ staleCalls = 0
    /\ codeCopiedAt = -1
    /\ codeCopiedIndex = -1
    /\ msgCopiedAt = -1

\* No chat yet: the reducer and the hooks in their initial state, nothing stored.
ChatIdle ==
    /\ messages = <<>>
    /\ isLoading = FALSE
    /\ error = Null
    /\ storedValue = <<>>
    /\ lsItem = [kind |-> "absent", value |-> <<>>]
    /\ mountSaved = <<>>
    /\ pending = {}
    /\ sends = 0
    /\ clears = 0
    /\ inputText = <<>>
    /\ sent = <<>>
    /\ escaped = 0

SegInit ==
    /\ content \in Inputs
    /\ role = "assistant"
    /\ view = "unrendered"
    /\ parts = <<>>
    /\ CopyIdle
    /\ ChatIdle

\* ChatMessage renders: formatMessageContent(message.content, ...).
Render ==
    /\ view = "unrendered"
    /\ view' = FormatView(content)
    /\ parts' = FormatParts(content)
    /\ UNCHANGED <<content, role>>
    /\ UNCHANGED copyVars
    /\ UNCHANGED chatVars

SegNext == Render

SegSpec == SegInit /\ [][SegNext]_vars

(***************************************************************************)
(* Properties of the segmenter.                                            *)
(***************************************************************************)
IsCode(p) == p.type = "code"
IsMarkdown(p) == p.type = "markdown"

\* The tag the regex captured for a code part: none when the language defaulted.
CapturedTag(p) == IF p.language = text THEN <<>> ELSE p.language

\* An opening triple backtick followed later by a closing one.
HasFencePair(s) ==
    \E i \in 0..Len(s), j \in 0..Len(s) : TripleAt(s, i) /\ TripleAt(s, j) /\ j >= i + 3

RECURSIVE FenceCount(_, _)
\* The fences of s from index i on, read left to right without overlap.
FenceCount(s, i) ==
    IF i >= Len(s) THEN 0
    ELSE IF TripleAt(s, i) THEN 1 + FenceCount(s, i + 3)
    ELSE FenceCount(s, i + 1)

\* Every opening fence has its closing fence.
WellFormed(s) == FenceCount(s, 0) % 2 = 0

RECURSIVE Rewrap(_)
\* The contents in order, each code part wrapped again as fence, language, content, fence.
Rewrap(ps) ==
    IF ps = <<>> THEN <<>>
    ELSE LET p == Head(ps)
         IN  (IF IsCode(p) THEN Fence \o p.language \o p.content \o Fence ELSE p.content)
             \o Rewrap(Tail(ps))

\* C1: a fence tagged with a known tag T around a body B with no triple backtick gives
\* exactly one code part, of language T and content B with the surrounding whitespace
\* stripped.
C1_KnownTagIsLanguage ==
    \A t \in KnownTagSet, b \in Bodies :
        (view = "parts" /\ content = Fenced(t, b)) =>
            /\ Len(parts) = 1
            /\ IsCode(parts[1])
            /\ parts[1].language = t
            /\ parts[1].content = Trim(b)

\* C2: a non-empty input with no complete fence pair, an unclosed fence included, gives
\* exactly one part, of type markdown, whose content is the whole input.
C2_NoPairOneMarkdown ==
    (view = "parts" /\ ~HasFencePair(content)) =>
        /\ Len(parts) = 1
        /\ IsMarkdown(parts[1])
        /\ parts[1].content = content

\* C2 witness: an input whose only fence is never closed has been rendered.
C2_Witness ==
    /\ view = "parts"
    /\ HasTriple(content)
    /\ ~HasFencePair(content)
    /\ Len(parts) = 1

\* C3: the parts come in document order and their spans partition the input; a
\* markdown part is the text of its span verbatim, a code part spans a whole fence
\* block whose body, stripped, is its content.
C3_SpansPartition ==
    view = "parts" =>
        /\ Len(parts) >= 1
        /\ parts[1].from = 0
        /\ parts[Len(parts)].to = Len(content)
        /\ \A k \in 1..(Len(parts) - 1) : parts[k].to = parts[k + 1].from
        /\ \A k \in 1..Len(parts) :
            LET p == parts[k]
            IN  /\ p.from < p.to
                /\ IsMarkdown(p) => p.content = Substring(content, p.from, p.to)
                /\ IsCode(p) =>
                    /\ TripleAt(content, p.from)
                    /\ TripleAt(content, p.to - 3)
                    /\ p.from + 3 + Len(CapturedTag(p)) <= p.to - 3
                    /\ p.content =
                         Trim(Substring(content, p.from + 3 + Len(CapturedTag(p)), p.to - 3))

\* C3 witness: text, a code block and text again, each with its own span.
C3_Witness ==
    /\ view = "parts"
    /\ Len(parts) >= 3
    /\ IsMarkdown(parts[1])
    /\ IsCode(parts[2])
    /\ IsMarkdown(parts[3])

\* C4 as stated: when every fence is well-formed, the contents in order, each code
\* part wrapped again as fence, language, content, fence, are the input exactly.
C4_RoundTripExact ==
    (view = "parts" /\ WellFormed(content)) => Rewrap(parts) = content

\* The block of a code part is fence, captured tag, a whitespace run of length a, the
\* content, a whitespace run of length b, fence.
BlockShape(s, p, a, b) ==
    LET tag == CapturedTag(p)
        c == p.from + 3 + Len(tag) + a
    IN  /\ p.to - p.from = 6 + Len(tag) + a + Len(p.content) + b
        /\ StartsWithAt(s, Fence \o tag, p.from)
        /\ \A i \in (p.from + 3 + Len(tag) + 1)..c : IsSpace(s[i])
        /\ StartsWithAt(s, p.content, c)
        /\ \A i \in (c + Len(p.content) + 1)..(p.to - 3) : IsSpace(s[i])
        /\ TripleAt(s, p.to - 3)

\* C4 amended: wrapping again gives the input only up to the whitespace between the
\* captured tag and the content, the whitespace between the content and the closing
\* fence, and the tag text standing for no captured tag; it gives the input exactly
\* if and only if every code part has a captured tag and no such whitespace.
C4_RoundTripUpToWhitespace ==
    view = "parts" =>
        /\ \A k \in 1..Len(parts) :
            IsCode(parts[k]) =>
                LET p == parts[k]
                IN  /\ \E a \in 0..Len(content), b \in 0..Len(content) :
                           BlockShape(content, p, a, b)
                    /\ p.content # <<>> =>
                        /\ ~IsSpace(p.content[1])
                        /\ ~IsSpace(p.content[Len(p.content)])
        /\ Rewrap(parts) = content <=>
             \A k \in 1..Len(parts) :
                IsCode(parts[k]) =>
                    /\ parts[k].language # text
                    /\ BlockShape(content, parts[k], 0, 0)

\* C4 witness: a well-formed block with whitespace around its body has been rendered,
\* and wrapping its content again does not give the input back.
C4_Witness ==
    /\ view = "parts"
    /\ WellFormed(content)
    /\ \E k \in 1..Len(parts) :
        /\ IsCode(parts[k])
        /\ parts[k].language = js
        /\ parts[k].content = <<"x">>
        /\ parts[k].to - parts[k].from > 6 + Len(js) + 1
    /\ Rewrap(parts) # content

\* C5: a fence tagged with a tag outside the known set gives a code part whose
\* language is that tag as written and whose content does not hold the tag.
C5_UnknownTagIsLanguage ==
    \A t \in UnknownTags, b \in Bodies :
        (view = "parts" /\ content = Fenced(t, b)) =>
            /\ Len(parts) = 1
            /\ IsCode(parts[1])
            /\ parts[1].language = t
            /\ parts[1].content = Trim(b)

\* C6: a code block ends at the first triple backtick after its opening fence, and
\* no code content holds three consecutive backticks.
C6_NonGreedyNoFenceInContent ==
    view = "parts" =>
        \A k \in 1..Len(parts) :
            IsCode(parts[k]) =>
                LET p == parts[k]
                    closings == {q \in (p.from + 3)..Len(content) : TripleAt(content, q)}
                IN  /\ ~HasTriple(p.content)
                    /\ closings # {}
                    /\ \A q \in closings : p.to - 3 <= q
                    /\ (p.to - 3) \in closings

\* C6 witness: a code block was closed although a later triple backtick follows it.
C6_Witness ==
    /\ view = "parts"
    /\ \E k \in 1..Len(parts) :
        /\ IsCode(parts[k])
        /\ \E q \in parts[k].to..Len(content) : TripleAt(content, q)

\* C11: a well-formed fence whose opening delimiter is followed directly by
\* whitespace gives one code part of language text whose content is the body with
\* the surrounding whitespace stripped.
C11_NoTagIsText ==
    \A w \in {SP, NL}, b \in Bodies :
        (view = "parts" /\ content = Fence \o <<w>> \o b \o <<NL>> \o Fence) =>
            /\ Len(parts) = 1
            /\ IsCode(parts[1])
            /\ parts[1].language = text
            /\ parts[1].content = Trim(b)

\* C11 witness: a fence with no tag around a body has been rendered as text.
C11_Witness ==
    /\ view = "parts"
    /\ content = Fenced(<<>>, <<"x">>)
    /\ Len(parts) = 1
    /\ parts[1].language = text

\* C12: for content that is null, undefined or the empty string the result is
\* null, with no parts and no error.
C12_FalsyContentRendersNothing ==
    (view # "unrendered" /\ Falsy(content)) => (view = "null" /\ parts = <<>>)

\* C12 witness: a null content has been rendered.
C12_Witness ==
    /\ content = Null
    /\ view = "null"


(***************************************************************************)
(* ChatMessage: the two copy handlers and their acknowledgment state.      *)
(* Time is the wall clock in ms; a timer fires at the instant it is due    *)
(* (the clock does not pass a due timer), a clipboard write settles at any *)
(* later moment.                                                           *)
(***************************************************************************)
CodeAckMs == 2000
MessageAckMs == 2000

\* The clock advances in half acknowledgment periods.
StepMs == CodeAckMs \div 2

\* The messages the component is mounted with: no code block, one, two.
CopyMessages ==
    { <<"x">>,
      Fenced(js, <<"x">>),
      <<"x">> \o Fence \o <<"x">> \o Fence \o <<"x">> \o Fence \o <<"x">> \o Fence }

\* The keys parts.map gives the code parts: their 0-based positions in parts.
CodeIndices(ps) == {k - 1 : k \in {j \in 1..Len(ps) : IsCode(ps[j])}}

CopyInit ==
    /\ content \in CopyMessages
    /\ role \in {"user", "assistant"}
    /\ view = FormatView(content)
    /\ parts = FormatParts(content)
    /\ CopyIdle
    /\ ChatIdle

\* A state setter that merges the new object into the previous one.
SetCopySuccessMerge(prev, value) == prev \cup value

\* setCopySuccess(value): the state object is replaced by value.
SetCopySuccess(prev, value) == value

\* onClick of the copy button of the code part with key index:
\* navigator.clipboard.writeText(part.content) starts.
ClickCopyCode(index) ==
    /\ mounted
    /\ view = "parts"
    /\ index \in CodeIndices(parts)
    /\ nextId < MaxCopies
    /\ writes' = writes \cup {[id |-> nextId, kind |-> "code", index |-> index]}
    /\ nextId' = nextId + 1
    /\ UNCHANGED <<mounted, copySuccess, messageCopied, timers, now, unhandled,
                   staleCalls, codeCopiedAt, codeCopiedIndex, msgCopiedAt>>
    /\ UNCHANGED segVars
    /\ UNCHANGED chatVars

\* copyFullMessage, the onClick of the button shown for messages not of the user.
ClickCopyMessage ==
    /\ mounted
    /\ role # "user"
    /\ content # <<>>
    /\ nextId < MaxCopies
    /\ writes' = writes \cup {[id |-> nextId, kind |-> "message", index |-> -1]}
    /\ nextId' = nextId + 1
    /\ UNCHANGED <<mounted, copySuccess, messageCopied, timers, now, unhandled,
                   staleCalls, codeCopiedAt, codeCopiedIndex, msgCopiedAt>>
    /\ UNCHANGED segVars
    /\ UNCHANGED chatVars

\* The write of w is fulfilled and the then callback runs: the acknowledgment is
\* set and a timer is scheduled.  After an unmount React drops the state update.
WriteResolves(w) ==
    /\ w \in writes
    /\ writes' = writes \ {w}
    /\ IF w.kind = "code"
       THEN /\ timers' = timers \cup
                  {[id |-> w.id, kind |-> "code", index |-> w.index,
                    due |-> now + CodeAckMs]}
            /\ IF mounted
               THEN /\ copySuccess' = SetCopySuccess(copySuccess, {w.index})
                    /\ codeCopiedAt' = now
                    /\ codeCopiedIndex' = w.index
                    /\ UNCHANGED staleCalls
               ELSE /\ staleCalls' = staleCalls + 1
                    /\ UNCHANGED <<copySuccess, codeCopiedAt, codeCopiedIndex>>
            /\ UNCHANGED <<messageCopied, msgCopiedAt>>
       ELSE /\ timers' = timers \cup
                  {[id |-> w.id, kind |-> "message", index |-> -1,
                    due |-> now + MessageAckMs]}
            /\ IF mounted
               THEN /\ messageCopied' = TRUE
                    /\ msgCopiedAt' = now
                    /\ UNCHANGED staleCalls
               ELSE /\ staleCalls' = staleCalls + 1
                    /\ UNCHANGED <<messageCopied, msgCopiedAt>>
            /\ UNCHANGED <<copySuccess, codeCopiedAt, codeCopiedIndex>>
    /\ UNCHANGED <<mounted, now, nextId, unhandled>>
    /\ UNCHANGED segVars
    /\ UNCHANGED chatVars

\* The write of w is rejected.  The promise has a then callback and no rejection
\* handler (no second argument, no catch): the rejection passes to the promise that
\* then returned, which nothing handles.
WriteRejects(w) ==
    /\ w \in writes
    /\ writes' = writes \ {w}
    /\ unhandled' = unhandled + 1
    /\ UNCHANGED <<mounted, copySuccess, messageCopied, timers, now, nextId,
                   staleCalls, codeCopiedAt, codeCopiedIndex, msgCopiedAt>>
    /\ UNCHANGED segVars
    /\ UNCHANGED chatVars

\* The timer t is due: setCopySuccess({}) or setMessageCopied(false).
TimerFires(t) ==
    /\ t \in timers
    /\ t.due = now
    /\ timers' = timers \ {t}
    /\ IF mounted
       THEN /\ IF t.kind = "code"
               THEN /\ copySuccess' = SetCopySuccess(copySuccess, {})
                    /\ UNCHANGED messageCopied
               ELSE /\ messageCopied' = FALSE
                    /\ UNCHANGED copySuccess
            /\ UNCHANGED staleCalls
       ELSE /\ staleCalls' = staleCalls + 1
            /\ UNCHANGED <<copySuccess, messageCopied>>
    /\ UNCHANGED <<mounted, writes, now, nextId, unhandled, codeCopiedAt,
                   codeCopiedIndex, msgCopiedAt>>
    /\ UNCHANGED segVars
    /\ UNCHANGED chatVars

\* Time passes, up to the next due timer.
Advance ==
    /\ now + StepMs <= MaxSteps * StepMs
    /\ \A t \in timers : t.due >= now + StepMs
    /\ now' = now + StepMs
    /\ UNCHANGED <<mounted, copySuccess, messageCopied, writes, timers, nextId,
                   unhandled, staleCalls, codeCopiedAt, codeCopiedIndex, msgCopiedAt>>
    /\ UNCHANGED segVars
    /\ UNCHANGED chatVars

\* The message leaves the list (the history is cleared or replaced) and its
\* ChatMessage is unmounted.  The component has no effect cleanup: pending writes
\* and timers stay.
Unmount ==
    /\ mounted
    /\ mounted' = FALSE
    /\ UNCHANGED <<copySuccess, messageCopied, writes, timers, now, nextId,
                   unhandled, staleCalls, codeCopiedAt, codeCopiedIndex, msgCopiedAt>>
    /\ UNCHANGED segVars
    /\ UNCHANGED chatVars

CopyNext ==
    \/ \E index \in 0..(Len(parts) - 1) : ClickCopyCode(index)
    \/ ClickCopyMessage
    \/ \E w \in writes : WriteResolves(w)
    \/ \E w \in writes : WriteRejects(w)
    \/ \E t \in timers : TimerFires(t)
    \/ Advance
    \/ Unmount

CopySpec == CopyInit /\ [][CopyNext]_vars

(***************************************************************************)
(* Properties of the copy acknowledgment.                                  *)
(***************************************************************************)
\* C7: the acknowledgment of every successful copy lasts exactly the acknowledgment
\* period from that copy: it is on before the period is over, also when the timer of
\* an earlier copy is still pending, and off after it.
C7_AckLastsExactly ==
    mounted =>
        /\ codeCopiedAt # -1 =>
            /\ now < codeCopiedAt + CodeAckMs => codeCopiedIndex \in copySuccess
            /\ now > codeCopiedAt + CodeAckMs => copySuccess = {}
        /\ msgCopiedAt # -1 =>
            /\ now < msgCopiedAt + MessageAckMs => messageCopied
            /\ now > msgCopiedAt + MessageAckMs => ~messageCopied

\* C8: at most one code part has its acknowledgment flag true, and it is the part of
\* the latest successful copy: that copy cleared every other flag in the step that
\* set its own.
C8_AtMostOneFlag ==
    /\ Cardinality(copySuccess) <= 1
    /\ copySuccess # {} => copySuccess = {codeCopiedIndex}

\* C8 witness: a copy succeeded on one code part while the acknowledgment of another
\* was still in flight.
C8_Witness ==
    /\ mounted
    /\ \E t \in timers :
        /\ t.kind = "code"
        /\ t.due > now
        /\ t.index # codeCopiedIndex
        /\ copySuccess = {codeCopiedIndex}
        /\ codeCopiedAt > t.due - CodeAckMs

\* C9: when a clipboard write is rejected, the rejection is handled, no flag becomes
\* true, no timer is scheduled and the acknowledgment state stays as it was.
C9_RejectionHandled ==
    [][(\E w \in writes : WriteRejects(w)) =>
          /\ unhandled' = unhandled
          /\ copySuccess' = copySuccess
          /\ messageCopied' = messageCopied
          /\ timers' = timers]_vars

\* C10: once the component is unmounted no timer is pending and no state setter is
\* called any more.
C10_NoTimerAfterTeardown ==
    ~mounted => (timers = {} /\ staleCalls = 0)

(***************************************************************************)
(* The chat state: chatReducer and ChatProvider (context/ChatContext),     *)
(* useLocalStorage, ChatInterface and ChatInput.  A backend request is     *)
(* one entry of pending from the call of fetch until its promise settles.  *)
(* A message carries, beside role and content, the id of the sendMessage   *)
(* call that added it (of, -1 for a message of a backend history).         *)
(***************************************************************************)
ErrorPrefix == <<"E", "r", "r", "o", "r", ":", " ">>

FallbackMessage ==
    <<"F", "a", "i", "l", "e", "d", " ", "t", "o", " ", "c", "o", "m", "m", "u", "n",
      "i", "c", "a", "t", "e", " ", "w", "i", "t", "h", " ", "t", "h", "e", " ", "s",
      "e", "r", "v", "e", "r", ".">>

Message(r, c, id) == [role |-> r, content |-> c, of |-> id]

initialState == [messages |-> <<>>, isLoading |-> FALSE, error |-> Null]

\* ADD_MESSAGE that puts the message first.
chatReducerPrepend(state, action) ==
    CASE action.type = "SET_MESSAGES" -> [state EXCEPT !.messages = action.payload]
      [] action.type = "ADD_MESSAGE" ->
            [state EXCEPT !.messages = <<action.payload>> \o state.messages]
      [] action.type = "SET_LOADING" -> [state EXCEPT !.isLoading = action.payload]
      [] action.type = "SET_ERROR" -> [state EXCEPT !.error = action.payload]
      [] action.type = "CLEAR_HISTORY" -> initialState
      [] OTHER -> state

chatReducer(state, action) ==
    CASE action.type = "SET_MESSAGES" -> [state EXCEPT !.messages = action.payload]
      [] action.type = "ADD_MESSAGE" ->
            [state EXCEPT !.messages = Append(state.messages, action.payload)]
      [] action.type = "SET_LOADING" -> [state EXCEPT !.isLoading = action.payload]
      [] action.type = "SET_ERROR" -> [state EXCEPT !.error = action.payload]
      [] action.type = "CLEAR_HISTORY" -> initialState
      [] OTHER -> state

RECURSIVE Reduce(_, _)
\* The state after the dispatches of one handler run, in their order.
Reduce(state, actions) ==
    IF actions = <<>> THEN state
    ELSE Reduce(chatReducer(state, Head(actions)), Tail(actions))

Dispatch(actions) ==
    LET state == Reduce([messages |-> messages, isLoading |-> isLoading, error |-> error],
                        actions)
    IN  /\ messages' = state.messages
        /\ isLoading' = state.isLoading
        /\ error' = state.error

\* A filter that keeps every message.
FilterSystemKeepAll(history) == history

\* history.filter((msg) => msg.role !== "system")
FilterSystem(history) == SelectSeq(history, LAMBDA msg : msg.role # "system")

\* A filter that lets function messages through.
DisplayMessagesNoFunction(ms) ==
    SelectSeq(ms, LAMBDA msg : msg.role # "system" /\ ~Falsy(msg.content))

\* displayMessages of ChatInterface, the messages prop of ChatMessageList.
DisplayMessages(ms) ==
    SelectSeq(ms, LAMBDA msg :
        msg.role # "system" /\ msg.role # "function" /\ ~Falsy(msg.content))

\* The content of the message a failed send adds.
ErrorContent(message) ==
    ErrorPrefix \o (IF Falsy(message) THEN FallbackMessage ELSE message)

(***************************************************************************)
(* useLocalStorage.  The item is absent, a JSON text (kept as the value it *)
(* encodes) or a text JSON.parse rejects.                                  *)
(***************************************************************************)
Absent == [kind |-> "absent", value |-> <<>>]
Corrupt == [kind |-> "corrupt", value |-> <<>>]

\* JSON.stringify of a history.
Stringify(value) == [kind |-> "json", value |-> value]

\* The initial state of the hook: item ? JSON.parse(item) : initialValue, and
\* initialValue when JSON.parse throws.
ReadItem(item, initialValue) ==
    IF item.kind = "json" THEN item.value ELSE initialValue

\* setValue(value) for a value that is no function: setStoredValue(value), then
\* localStorage.setItem, which throws when writeOk is false (quota, storage
\* disabled); the catch logs the error.
SetValue(stored, item, value, writeOk) ==
    [stored |-> value,
     item |-> IF writeOk THEN Stringify(value) ELSE item]

\* handleStorageChange for an event on the key of the hook: e.newValue is null for a
\* removed item and JSON.parse(null) is null; the catch keeps the state.
HandleStorageChange(stored, newItem) ==
    IF newItem.kind = "corrupt" THEN stored
    ELSE IF newItem.kind = "absent" THEN Null
    ELSE newItem.value

(***************************************************************************)
(* What the backend and the other tabs may answer.                         *)
(***************************************************************************)
Hi == <<"h", "i">>
Ok == <<"o", "k">>

\* A backend history: system prompt, user, a function call (content null), its
\* result, the reply.
ToolHistory ==
    << Message("system", <<"s">>, -1), Message("user", Hi, -1),
       Message("assistant", Null, -1), Message("function", <<"r">>, -1),
       Message("assistant", Ok, -1) >>

Histories == {<<>>, ToolHistory}
SendHistories == {ToolHistory}
Responses == {Ok}
ErrorMessages == {<<"5", "0", "0">>}
Texts == {<<>>, <<SP>>, <<SP, "h", "i">>}
BlankTexts == {t \in Texts : Trim(t) = <<>>}
InitialItems == {Absent, Corrupt, Stringify(FilterSystem(ToolHistory))}
OtherTabItems == {Absent, Corrupt, Stringify(FilterSystem(ToolHistory))}

HistoryRequest == [id |-> -1, kind |-> "history", content |-> <<>>]

\* ChatProvider has mounted: the hook has read the item, the reducer starts from it
\* and the mount effect has called apiService.getHistory.
ChatInit ==
    /\ lsItem \in InitialItems
    /\ storedValue = ReadItem(lsItem, <<>>)
    /\ messages = storedValue
    /\ isLoading = FALSE
    /\ error = Null
    /\ mountSaved = storedValue
    /\ pending = {HistoryRequest}
    /\ sends = 0
    /\ clears = 0
    /\ inputText = <<>>
    /\ sent = <<>>
    /\ escaped = 0
    /\ content = <<"x">>
    /\ role = "assistant"
    /\ view = "unrendered"
    /\ parts = <<>>
    /\ CopyIdle

\* getHistory is fulfilled with history.
HistoryLoads(history) ==
    /\ HistoryRequest \in pending
    /\ pending' = pending \ {HistoryRequest}
    /\ Dispatch(<<[type |-> "SET_MESSAGES", payload |-> FilterSystem(history)]>>)
    /\ UNCHANGED <<storedValue, lsItem, mountSaved, sends, clears, inputText,
                   sent, escaped>>
    /\ UNCHANGED <<segVars, copyVars>>

\* getHistory is rejected: the catch falls back to savedMessages when it has any.
HistoryFails ==
    /\ HistoryRequest \in pending
    /\ pending' = pending \ {HistoryRequest}
    /\ IF Len(mountSaved) > 0
       THEN Dispatch(<<[type |-> "SET_MESSAGES", payload |-> mountSaved]>>)
       ELSE UNCHANGED <<messages, isLoading, error>>
    /\ UNCHANGED <<storedValue, lsItem, mountSaved, sends, clears, inputText,
                   sent, escaped>>
    /\ UNCHANGED <<segVars, copyVars>>

\* handleChange of ChatInput.
HandleChange(value) ==
    /\ value # inputText
    /\ inputText' = value
    /\ UNCHANGED <<messages, isLoading, error, storedValue, lsItem, mountSaved, pending,
                   sends, clears, sent, escaped>>
    /\ UNCHANGED <<segVars, copyVars>>

\* sendMessage(content) up to its await: the two dispatches, then the request.
SendMessage(c) ==
    IF Trim(c) = <<>>
    THEN UNCHANGED <<messages, isLoading, error, pending, sends>>
    ELSE /\ Dispatch(<<[type |-> "ADD_MESSAGE", payload |-> Message("user", c, sends)],
                       [type |-> "SET_LOADING", payload |-> TRUE]>>)
         /\ pending' = pending \cup {[id |-> sends, kind |-> "send", content |-> c]}
         /\ sends' = sends + 1

\* handleSubmit that does not look at isLoading.
HandleSubmitWhileLoading ==
    LET trimmed == Trim(inputText)
    IN  /\ trimmed # <<>> => sends < MaxSends
        /\ IF trimmed = <<>>
           THEN UNCHANGED <<messages, isLoading, error, pending, sends, sent, inputText>>
           ELSE /\ SendMessage(trimmed)
                /\ sent' = Append(sent, trimmed)
                /\ inputText' = <<>>
        /\ UNCHANGED <<storedValue, lsItem, mountSaved, clears, escaped>>
        /\ UNCHANGED <<segVars, copyVars>>

\* handleSubmit of ChatInput (the form is submitted, or Enter is pressed): onSend is
\* handleSendMessage of ChatInterface, which calls sendMessage.
HandleSubmit ==
    LET trimmed == Trim(inputText)
    IN  /\ (trimmed # <<>> /\ ~isLoading) => sends < MaxSends
        /\ IF trimmed = <<>> \/ isLoading
           THEN UNCHANGED <<messages, isLoading, error, pending, sends, sent, inputText>>
           ELSE /\ SendMessage(trimmed)
                /\ sent' = Append(sent, trimmed)
                /\ inputText' = <<>>
        /\ UNCHANGED <<storedValue, lsItem, mountSaved, clears, escaped>>
        /\ UNCHANGED <<segVars, copyVars>>

\* sendMessage called with a blank content.
CallSendMessageBlank(c) ==
    /\ c \in BlankTexts
    /\ SendMessage(c)
    /\ UNCHANGED <<storedValue, lsItem, mountSaved, clears, inputText, sent,
                   escaped>>
    /\ UNCHANGED <<segVars, copyVars>>

\* A failed send that leaves the loading flag set.
SendRejectsKeepLoading(q, message) ==
    /\ q \in pending
    /\ q.kind = "send"
    /\ pending' = pending \ {q}
    /\ Dispatch(<<[type |-> "SET_ERROR", payload |-> message],
                  [type |-> "ADD_MESSAGE",
                   payload |-> Message("assistant", ErrorContent(message), q.id)]>>)
    /\ UNCHANGED <<storedValue, lsItem, mountSaved, sends, clears, inputText,
                   sent, escaped>>
    /\ UNCHANGED <<segVars, copyVars>>

\* A failed send whose catch sets the error and adds no message.
SendRejectsNoMessage(q, message) ==
    /\ q \in pending
    /\ q.kind = "send"
    /\ pending' = pending \ {q}
    /\ Dispatch(<<[type |-> "SET_ERROR", payload |-> message],
                  [type |-> "SET_LOADING", payload |-> FALSE]>>)
    /\ UNCHANGED <<storedValue, lsItem, mountSaved, sends, clears, inputText,
                   sent, escaped>>
    /\ UNCHANGED <<segVars, copyVars>>

\* apiService.sendMessage is fulfilled with {response, history}: the try block after
\* the await, then finally.
SendResolves(q, response, history, writeOk) ==
    /\ q \in pending
    /\ q.kind = "send"
    /\ pending' = pending \ {q}
    /\ Dispatch(<<[type |-> "ADD_MESSAGE",
                   payload |-> Message("assistant", response, q.id)],
                  [type |-> "SET_LOADING", payload |-> FALSE]>>)
    /\ LET set == SetValue(storedValue, lsItem, FilterSystem(history), writeOk)
       IN  /\ storedValue' = set.stored
           /\ lsItem' = set.item
    /\ UNCHANGED <<mountSaved, sends, clears, inputText, sent, escaped>>
    /\ UNCHANGED <<segVars, copyVars>>

\* apiService.sendMessage is rejected with an Error of the given message: catch,
\* then finally.
SendRejects(q, message) ==
    /\ q \in pending
    /\ q.kind = "send"
    /\ pending' = pending \ {q}
    /\ Dispatch(<<[type |-> "SET_ERROR", payload |-> message],
                  [type |-> "ADD_MESSAGE",
                   payload |-> Message("assistant", ErrorContent(message), q.id)],
                  [type |-> "SET_LOADING", payload |-> FALSE]>>)
    /\ UNCHANGED <<storedValue, lsItem, mountSaved, sends, clears, inputText,
                   sent, escaped>>
    /\ UNCHANGED <<segVars, copyVars>>

\* clearHistory up to its await (Reset Chat of the sidebar, confirmed).
CallClearHistory ==
    /\ clears < MaxClears
    /\ pending' = pending \cup {[id |-> -2 - clears, kind |-> "clear", content |-> <<>>]}
    /\ clears' = clears + 1
    /\ UNCHANGED <<messages, isLoading, error, storedValue, lsItem, mountSaved, sends,
                   inputText, sent, escaped>>
    /\ UNCHANGED <<segVars, copyVars>>

\* apiService.clearHistory is fulfilled.
ClearResolves(q, writeOk) ==
    /\ q \in pending
    /\ q.kind = "clear"
    /\ pending' = pending \ {q}
    /\ Dispatch(<<[type |-> "CLEAR_HISTORY"]>>)
    /\ LET set == SetValue(storedValue, lsItem, <<>>, writeOk)
       IN  /\ storedValue' = set.stored
           /\ lsItem' = set.item
    /\ UNCHANGED <<mountSaved, sends, clears, inputText, sent, escaped>>
    /\ UNCHANGED <<segVars, copyVars>>

\* apiService.clearHistory is rejected.
ClearRejects(q, message) ==
    /\ q \in pending
    /\ q.kind = "clear"
    /\ pending' = pending \ {q}
    /\ Dispatch(<<[type |-> "SET_ERROR", payload |-> message]>>)
    /\ UNCHANGED <<storedValue, lsItem, mountSaved, sends, clears, inputText,
                   sent, escaped>>
    /\ UNCHANGED <<segVars, copyVars>>

\* Another page of the origin changed the item: the storage event.
StorageEvent(newItem) ==
    /\ newItem # lsItem
    /\ lsItem' = newItem
    /\ storedValue' = HandleStorageChange(storedValue, newItem)
    /\ UNCHANGED <<messages, isLoading, error, mountSaved, pending, sends, clears,
                   inputText, sent, escaped>>
    /\ UNCHANGED <<segVars, copyVars>>

SendSettles ==
    \/ \E q \in pending, response \in Responses, history \in SendHistories,
          writeOk \in BOOLEAN : SendResolves(q, response, history, writeOk)
    \/ \E q \in pending, message \in ErrorMessages : SendRejects(q, message)

ChatNext ==
    \/ \E history \in Histories : HistoryLoads(history)
    \/ HistoryFails
    \/ \E value \in Texts : HandleChange(value)
    \/ HandleSubmit
    \/ \E c \in BlankTexts : CallSendMessageBlank(c)
    \/ SendSettles
    \/ CallClearHistory
    \/ \E q \in pending, writeOk \in BOOLEAN : ClearResolves(q, writeOk)
    \/ \E q \in pending, message \in ErrorMessages : ClearRejects(q, message)
    \/ \E newItem \in OtherTabItems : StorageEvent(newItem)

ChatSpec == ChatInit /\ [][ChatNext]_vars

\* Every request of sendMessage settles.
ChatFairSpec == ChatSpec /\ WF_vars(SendSettles)

(***************************************************************************)
(* The claims about the chat state.                                        *)
(***************************************************************************)
Roles == {"user", "assistant", "system", "function"}

\* Sample lists: every message over the four roles and three contents alone, and
\* every pair of messages with a content over the four roles.
SampleMessages == {Message(r, c, -1) : r \in Roles, c \in {<<>>, Null, Hi}}
SamplePairs == {<<Message(r, Hi, -1), Message(t, Ok, -1)>> : r \in Roles, t \in Roles}
SampleLists == {<<>>} \cup {<<a>> : a \in SampleMessages} \cup SamplePairs

Renderable(msg) ==
    /\ msg.role \in {"user", "assistant"}
    /\ msg.content # <<>>
    /\ msg.content # Null
    /\ msg.content # Undefined

\* C13: the list handed to ChatMessageList is exactly the subsequence, in the
\* original order, of the messages whose role is user or assistant and whose content
\* is non-empty, for the message list of the chat state and for every sample list.
C13_RenderedAreUserAssistantNonEmpty ==
    \A ms \in {messages} \cup SampleLists :
        DisplayMessages(ms) = SelectSeq(ms, Renderable)

\* A backend history with a function result and a null content is loaded and two
\* of its four kept messages are displayed.
C13_Witness ==
    /\ \E i \in 1..Len(messages) :
           messages[i].role = "function" /\ messages[i].content # <<>>
    /\ \E i \in 1..Len(messages) : messages[i].content = Null
    /\ Len(DisplayMessages(messages)) = 2

\* C14: clearHistory clears only after the backend clear succeeds.  Calling it
\* changes nothing; on success the chat state is the initial state and the history
\* that local storage holds (what the hook reads from the item) is the empty list; on
\* failure the messages, the saved value and the
\* item are unchanged and error is the failure message.
C14_ClearOnlyAfterBackendSuccess ==
    [][ /\ CallClearHistory => UNCHANGED <<messages, isLoading, error, storedValue, lsItem>>
        /\ \A q \in pending, writeOk \in BOOLEAN :
               ClearResolves(q, writeOk) =>
                   /\ messages' = <<>>
                   /\ isLoading' = FALSE
                   /\ error' = Null
                   /\ storedValue' = <<>>
                   /\ ReadItem(lsItem', <<>>) = <<>>
        /\ \A q \in pending, message \in ErrorMessages :
               ClearRejects(q, message) =>
                   /\ UNCHANGED <<messages, storedValue, lsItem>>
                   /\ error' = message ]_vars

SendPending == \E q \in pending : q.kind = "send"

\* C15: a step that issues the request of a send sets isLoading, a step that settles
\* one resets it, and isLoading always leads to its being false.
C15_LoadingEndsWhenRequestSettles ==
    /\ [][ /\ (\E q \in pending' \ pending : q.kind = "send") => isLoading' = TRUE
           /\ (\E q \in pending \ pending' : q.kind = "send") => isLoading' = FALSE ]_vars
    /\ (isLoading ~> ~isLoading)

\* A send has failed and the loader is gone.
C15_Witness ==
    sends > 0 /\ ~SendPending /\ ~isLoading /\ error # Null

CanSubmit == Trim(inputText) # <<>> /\ ~isLoading

\* C17: onSend is called only when the trimmed input is non-empty and isLoading is
\* false, then once with the trimmed text, and the input is emptied; a submit in any
\* other state calls nothing and keeps the input; sendMessage with blank content adds
\* no message, issues no request and keeps isLoading.
C17_SubmitGuards ==
    [][ /\ sent' # sent => CanSubmit
        /\ HandleSubmit =>
               IF CanSubmit
               THEN /\ sent' = Append(sent, Trim(inputText))
                    /\ inputText' = <<>>
                    /\ \E q \in pending' \ pending :
                           q.kind = "send" /\ q.content = Trim(inputText)
               ELSE UNCHANGED <<sent, inputText, messages, pending, isLoading>>
        /\ \A c \in BlankTexts :
               CallSendMessageBlank(c) => UNCHANGED <<messages, pending, isLoading>> ]_vars

\* One text was submitted trimmed, and another one waits in the input while the
\* request is pending.
C17_Witness ==
    /\ sent = <<Hi>>
    /\ isLoading
    /\ Trim(inputText) # <<>>

Untouched == sends = 0 /\ clears = 0 /\ HistoryRequest \in pending

\* C18, as stated: when the load fails, the messages are the history that was read
\* from local storage.
C18_FailedLoadShowsSavedHistory ==
    [][ HistoryFails => messages' = mountSaved ]_vars

\* C18, amended: the provider starts from the history read from local storage; a
\* load that succeeds sets the messages to the backend history without its system
\* messages, in order; a load that fails sets them to the history read at mount when
\* that is non-empty and leaves them as they are when it is empty.
C18_LoadOrFallBack ==
    /\ messages = ReadItem(lsItem, <<>>)
    /\ [](Untouched => messages = mountSaved)
    /\ [][ /\ \A history \in Histories :
                  HistoryLoads(history) =>
                      messages' = SelectSeq(history, LAMBDA msg : msg.role # "system")
           /\ HistoryFails =>
                  messages' = IF mountSaved # <<>> THEN mountSaved ELSE messages ]_vars

\* The load failed after a send, with nothing saved: the message of the send stays.
C18_Witness ==
    /\ HistoryRequest \notin pending
    /\ mountSaved = <<>>
    /\ Len(messages) = 1
    /\ messages[1].role = "user"
    /\ messages[1].of = 0

UserAt(id) == {i \in 1..Len(messages) : messages[i].of = id /\ messages[i].role = "user"}
AssistantAt(id) ==
    {i \in 1..Len(messages) : messages[i].of = id /\ messages[i].role = "assistant"}

\* C19, as stated: the call appends the user message, the settling appends one
\* assistant message, and that one stands behind the user message of its send.
C19_UserMessagePrecedesReply ==
    [][ \A q \in pending \ pending' :
            q.kind = "send" =>
                /\ \E a \in {Message("assistant", c, q.id) :
                                 c \in Responses \cup {ErrorContent(e) : e \in ErrorMessages}} :
                       messages' = Append(messages, a)
                /\ \E i \in 1..Len(messages) : messages[i] = Message("user", q.content, q.id) ]_vars

\* C19, amended: the call appends the user message and the settling appends one
\* assistant message, each at the end of the list as it then is; no other step adds
\* a message of a send; the only steps that take messages away replace the list by
\* one that holds no message of a send; so a send has at most one message of each
\* kind in the list, and the user message stands before the assistant message
\* whenever the list holds both.
C19_TwoAppendsInOrder ==
    /\ [][ /\ \A q \in pending' \ pending :
                  q.kind = "send" =>
                      messages' = Append(messages, Message("user", q.content, q.id))
           /\ \A q \in pending \ pending' :
                  q.kind = "send" =>
                      \E a \in {Message("assistant", c, q.id) :
                                   c \in Responses \cup {ErrorContent(e) : e \in ErrorMessages}} :
                          messages' = Append(messages, a)
           /\ (\A q \in (pending' \ pending) \cup (pending \ pending') : q.kind # "send")
                  => \/ messages' = messages
                     \/ \A i \in 1..Len(messages') : messages'[i].of = -1 ]_vars
    /\ [](\A id \in 0..(sends - 1) :
              /\ Cardinality(UserAt(id)) <= 1
              /\ Cardinality(AssistantAt(id)) <= 1
              /\ \A i \in UserAt(id), j \in AssistantAt(id) : i < j)

\* A send has settled in a list that holds its two messages, and an earlier send
\* has settled in a list that had lost its user message.
C19_Witness ==
    /\ UserAt(1) # {} /\ AssistantAt(1) # {}
    /\ UserAt(0) = {} /\ AssistantAt(0) # {}

\* C20: setValue(v) leaves the stored value and the item both holding v, or both as
\* they were; a storage event sets the stored value to the parsed new value.
C20_ValueAndItemTogether ==
    [][ /\ \A q \in pending, response \in Responses, history \in SendHistories,
              writeOk \in BOOLEAN :
               SendResolves(q, response, history, writeOk) =>
                   \/ /\ storedValue' = FilterSystem(history)
                      /\ lsItem' = Stringify(FilterSystem(history))
                   \/ UNCHANGED <<storedValue, lsItem>>
        /\ \A q \in pending, writeOk \in BOOLEAN :
               ClearResolves(q, writeOk) =>
                   \/ storedValue' = <<>> /\ lsItem' = Stringify(<<>>)
                   \/ UNCHANGED <<storedValue, lsItem>>
        /\ \A newItem \in OtherTabItems :
               (StorageEvent(newItem) /\ newItem.kind = "json")
                   => storedValue' = newItem.value ]_vars

====
